---------------------------- MODULE Spec2Model ----------------------------
(***************************************************************************)
(* LinkedIn H1B sponsor detector: the sponsorship classifier               *)
(* (src/analyzer.js) and the page monitor (src/content.js) with its badge  *)
(* and highlight collaborators (src/badge.js, src/highlighter.js).         *)
(*                                                                         *)
(* TEXT.  A job description is a JavaScript string.  The model writes a    *)
(* string as a sequence of lexemes and keeps the character arithmetic of   *)
(* the code (indices, lengths, the 50 and 20 character windows):           *)
(*   - a word lexeme is a maximal run of word characters ("no", "NO",      *)
(*     "visa"), or a fixed phrase of words joined by single blanks         *)
(*     ("relocation assistance"); StrLen gives its length in characters,   *)
(*     ToLower its lower-case form (String.prototype.toLowerCase);         *)
(*   - "." is a full stop, written directly after the preceding lexeme;    *)
(*   - "_17" and "_49" are runs of 17 and 49 white-space characters        *)
(*     standing between two words (textContent keeps the line breaks and   *)
(*     indentation of the markup);                                         *)
(*   - two adjacent word lexemes are separated by one blank.               *)
(* All rules of the catalogue have the shape \bw1\s+w2...\s+wn\b, so a     *)
(* rule is the sequence of its lower-case words and a match is a run of    *)
(* word lexemes, separated by white space only, whose lower-case forms     *)
(* are the rule's words.                                                   *)
(***************************************************************************)
EXTENDS Integers, Sequences, FiniteSets, Bags, TLC

VARIABLES
    \* ---- classifier harness (src/analyzer.js) ----
    subject,      \* the description under test, fixed for a behaviour
    arg,          \* argument of the latest call of Analyzer.analyze
    ret,          \* value returned by the latest call
    firstRet,     \* value returned by the first call on `subject`
    subjectCalls, \* number of calls made on `subject`
    lastIndex,    \* lastIndex of each module-level NEGATION_PATTERNS regex
    \* ---- the page (window.location, document) ----
    url,          \* window.location
    description,  \* the description the document shows, or NoDescription
    container,    \* TRUE iff findBadgeContainer() finds an element
    badge,        \* the element #h1b-sponsor-badge, or NoBadge
    highlight,    \* the span.h1b-sponsor-highlight, or NoHighlight
    \* ---- the content script (src/content.js) ----
    currentJobId,
    currentJobDescriptionHash,
    isProcessing,
    lastUrl,
    observerTimeout, \* the handle of the debounce timer: the ticks left of
                     \* the timer it names, or Cleared
    checkInterval,   \* ticks left to the next poll, or Cleared before init()
    timers,          \* the pending setTimeout callbacks, a bag
    \* ---- bookkeeping ----
    events,       \* navigations, redraws and clicks of the page so far
    cycles,       \* since the job of the address or the shown description
                  \* last changed, or the page took the badge away: 0 no
                  \* classification cycle has run, 1 the page has been
                  \* classified, 2 it has been classified again while its
                  \* badge was in the document
    classified,   \* the description Analyzer.analyze was last called on by
                  \* processJobPage, or NoDescription
    burst,        \* mutation batches of the page the MutationObserver has
                  \* taken since the debounce timer last fired
    step,         \* the callback that ran in the latest step, with the
                  \* state it started from; NoStep after any other step
    \* ---- errors ----
    raises,       \* the function that throws when it is called in this
                  \* behaviour, or NoFault
    \* ---- markup ----
    layout        \* how the site marks the job pane up in this behaviour

analyzerVars == <<subject, arg, ret, firstRet, subjectCalls, lastIndex>>

pageVars == <<url, description, container, badge, highlight, layout>>

scriptVars ==
    <<currentJobId, currentJobDescriptionHash, isProcessing, lastUrl,
      observerTimeout, checkInterval, timers>>

countVars == <<events, cycles>>

ghostVars == <<classified, burst, step>>

faultVars == <<raises>>

monitorVars == <<pageVars, scriptVars, countVars, ghostVars, faultVars>>

vars == <<analyzerVars, monitorVars>>

----------------------------------------------------------------------------
(* Bounds of the model *)

\* longest description, in lexemes, given to the classifier
MaxLen == 4

\* calls of Analyzer.analyze on the description under test
MaxCalls == 2

\* events of the page: navigations, redraws of the job pane and clicks
MaxEvents == 2

\* events of the page in the runs that check liveness
MaxLiveEvents == 1

\* setTimeout callbacks pending at once beyond which time is not followed
MaxPending == 3

----------------------------------------------------------------------------
(* Strings *)

Gaps == {"_17", "_49"}

WordLexemes ==
    {"no", "NO", "not", "visa", "sponsorship", "Sponsorship", "available",
     "relocation assistance", "local candidates only"}

Alphabet == WordLexemes \cup Gaps \cup {"."}

IsGap(t) == t \in Gaps

\* 200 characters of prose that no rule and no cue matches
Filler == {"lorem"}

\* the words of the badge's message that no description spells this way
BadgeWords == {"No", "Available"}

\* the badge's icon: a check mark ("yes") or a ballot x ("no")
Icons == {"icon:yes", "icon:no"}

IsWord(t) == t \in WordLexemes \cup Filler \cup BadgeWords

\* String.prototype.toLowerCase on one lexeme
ToLower(t) ==
    CASE t \in {"NO", "No"} -> "no"
      [] t = "Available" -> "available"
      [] t = "Sponsorship" -> "sponsorship"
      [] OTHER -> t

\* number of characters of one lexeme
StrLen(t) ==
    CASE t \in {"no", "NO", "No"} -> 2
      [] t \in Icons -> 1
      [] t = "not" -> 3
      [] t = "visa" -> 4
      [] t \in {"sponsorship", "Sponsorship"} -> 11
      [] t \in {"available", "Available"} -> 9
      [] t = "relocation assistance" -> 21
      [] t = "local candidates only" -> 21
      [] t = "." -> 1
      [] t = "_17" -> 17
      [] t = "_49" -> 49
      [] t = "lorem" -> 200

\* number of blanks written before lexeme i of s: one between a word and the
\* word or full stop before it
Sep(s, i) ==
    IF i > 1 /\ IsWord(s[i]) /\ (IsWord(s[i-1]) \/ s[i-1] = ".") THEN 1 ELSE 0

RECURSIVE CharEnd(_, _)
\* index of the character after lexeme i of s (0 for i = 0)
CharEnd(s, i) ==
    IF i = 0 THEN 0 ELSE CharEnd(s, i - 1) + Sep(s, i) + StrLen(s[i])

\* index of the first character of lexeme i of s (String indices start at 0)
CharIndex(s, i) == CharEnd(s, i - 1) + Sep(s, i)

\* s.length
Length(s) == CharEnd(s, Len(s))

\* the lexeme of s that starts at character index idx
LexemeAt(s, idx) == CHOOSE p \in 1..Len(s) : CharIndex(s, p) = idx

\* strings the page can hand over: String.prototype.trim has removed outer
\* white space, a white-space run stands between two words, a full stop
\* follows a word
WellFormed(s) ==
    \A i \in 1..Len(s) :
        /\ IsGap(s[i]) => i > 1 /\ i < Len(s) /\ IsWord(s[i-1]) /\ IsWord(s[i+1])
        /\ s[i] = "." => i > 1 /\ IsWord(s[i-1])

RECURSIVE StringsOfLen(_)
StringsOfLen(n) ==
    IF n = 0 THEN {<<>>}
    ELSE {Append(s, t) : s \in StringsOfLen(n - 1), t \in Alphabet}

Strings == {s \in UNION {StringsOfLen(n) : n \in 0..MaxLen} : WellFormed(s)}

\* haystack.includes(needle), case-exact
IsSubstring(needle, s) ==
    \E i \in 1..(Len(s) - Len(needle) + 1) :
        SubSeq(s, i, i + Len(needle) - 1) = needle

----------------------------------------------------------------------------
(* The catalogue of src/analyzer.js, restricted to the rules all of whose  *)
(* words are in the alphabet (no other rule can match a string of          *)
(* Strings).  Order is the order of the source arrays.                     *)

STRONG_POSITIVE_PATTERNS ==
    << <<"visa", "sponsorship">>,              \* /\bvisa\s+sponsorship\b/i
       <<"sponsorship", "available">> >>       \* /\bsponsorship\s+available\b/i

MODERATE_POSITIVE_PATTERNS ==
    << <<"relocation assistance">> >>          \* /\brelocation\s+assistance\b/i

STRONG_NEGATIVE_PATTERNS ==
    << <<"no", "sponsorship">>,                \* /\bno\s+sponsorship\b/i
       <<"sponsorship", "not", "available">>,  \* /\bsponsorship\s+not\s+available\b/i
       <<"no", "visa", "sponsorship">> >>      \* /\bno\s+visa\s+sponsorship\b/i

MODERATE_NEGATIVE_PATTERNS ==
    << <<"no", "relocation assistance">>,      \* /\bno\s+relocation\s+assistance\b/i
       <<"local candidates only">> >>          \* /\blocal\s+candidates\s+only\b/i

\* each cue is followed by \s+ in the source: /\bno\s+/i, /\bnot\s+/i, ...
NEGATION_PATTERNS ==
    << <<"no">>, <<"not">>, <<"doesn't">>, <<"does", "not">>,
       <<"cannot">>, <<"can't">>, <<"will", "not">>, <<"won't">> >>

\* NEGATION_PATTERNS written with the g flag (/\bno\s+/gi): test() then
\* resumes at lastIndex
NegationGlobal_G == TRUE

\* the g flag of the NEGATION_PATTERNS literals: all are written /.../i
NegationGlobal == FALSE

----------------------------------------------------------------------------
(* Regular expressions *)

RECURSIVE MatchFrom(_, _, _, _)
\* the words k.. of `rule` matched at lexeme p of s, case-insensitively, with
\* \s+ between them: the position of the last lexeme matched, or 0
MatchFrom(rule, s, p, k) ==
    IF p > Len(s) \/ ToLower(s[p]) # rule[k] THEN 0
    ELSE IF k = Len(rule) THEN p
    ELSE IF p < Len(s) /\ IsGap(s[p+1]) THEN MatchFrom(rule, s, p + 2, k + 1)
    ELSE MatchFrom(rule, s, p + 1, k + 1)

RECURSIVE ExecLoop(_, _, _)
\* while ((match = globalPattern.exec(text)) !== null) matches.push({...}):
\* the scan resumes after each match (lastIndex), so matches are collected
\* left to right and do not overlap
ExecLoop(rule, s, from) ==
    IF from > Len(s) THEN <<>>
    ELSE LET Push(e) ==
                 IF e = 0 THEN ExecLoop(rule, s, from + 1)
                 ELSE << [text   |-> SubSeq(s, from, e),
                          index  |-> CharIndex(s, from),
                          length |-> CharEnd(s, e) - CharIndex(s, from)] >>
                      \o ExecLoop(rule, s, e + 1)
         IN Push(MatchFrom(rule, s, from, 1))

\* findMatches run on text.toLowerCase(): the phrases lose their case
findMatches_Lower(pattern, text) ==
    LET Lower(m) ==
            [i \in 1..Len(m) |->
                [m[i] EXCEPT !.text = [j \in 1..Len(@) |-> ToLower(@[j])]]]
    IN Lower(ExecLoop(pattern, text, 1))

\* findMatches reporting the rule's phrase instead of match[0]
findMatches_Phrase(pattern, text) ==
    LET Phrase(m) == [i \in 1..Len(m) |-> [m[i] EXCEPT !.text = pattern]]
    IN Phrase(ExecLoop(pattern, text, 1))

\* findMatches that stops at the first hit (pattern.exec once)
findMatches_First(pattern, text) ==
    LET First(m) == IF m = <<>> THEN <<>> ELSE <<m[1]>>
    IN First(ExecLoop(pattern, text, 1))

\* findMatches(pattern, text): the catalogue patterns carry no g flag, so a
\* fresh global RegExp (lastIndex 0) is built for every call
findMatches(pattern, text) == ExecLoop(pattern, text, 1)

RECURSIVE FindAll(_, _, _)
\* for (const pattern of PATTERNS) for (const match of findMatches(...)):
\* the matches of patterns k.. in iteration order
FindAll(patterns, text, k) ==
    IF k > Len(patterns) THEN <<>>
    ELSE findMatches(patterns[k], text) \o FindAll(patterns, text, k + 1)

----------------------------------------------------------------------------
(* isNegated *)

\* text.substring(Math.max(0, matchIndex - 50), matchIndex)
ContextChars == 50

\* new RegExp(negPattern.source + '[^.]{0,20}$', 'i')
NearChars == 20

\* Math.max(0, matchIndex - 50): index in text of the first character of
\* contextBefore
ContextStart(matchIndex) ==
    IF matchIndex - ContextChars > 0 THEN matchIndex - ContextChars ELSE 0

\* the first lexeme after the white space that follows lexeme e
AfterSpace(s, e) == IF IsGap(s[e+1]) THEN e + 2 ELSE e + 1

\* the occurrences of negation cue c in contextBefore: the positions q where
\* \bcue\s+ matches inside text[ContextStart .. matchIndex).  contextBefore
\* is lower-cased and the pattern is /i: the cue is matched on ToLower.
\* (No lexeme of the alphabet ends in a cue, so a cue cut out of a longer
\* word by the start of the window does not arise.)
CueOccurrences(c, text, matchIndex) ==
    LET Inside(p, q, e) ==
            /\ e # 0
            /\ e < p
            /\ text[e+1] # "."
            /\ CharIndex(text, q) >= ContextStart(matchIndex)
        Before(p) ==
            {q \in 1..(p - 1) :
                Inside(p, q, MatchFrom(NEGATION_PATTERNS[c], text, q, 1))}
    IN Before(LexemeAt(text, matchIndex))

\* where \bcue\s+ ends (\s+ is greedy), as an index into text
CueEnd(c, text, q) ==
    CharIndex(text, AfterSpace(text, MatchFrom(NEGATION_PATTERNS[c], text, q, 1)))

\* negPattern.test(contextBefore) on the module-level regex object whose
\* lastIndex is li.  Without the g flag, test ignores and keeps lastIndex;
\* with it, the search starts at lastIndex and leaves lastIndex after the
\* match, or 0 when there is none.
RegExpTest(c, text, matchIndex, li) ==
    LET start == ContextStart(matchIndex)
        First(from) == CHOOSE q \in from : \A r \in from : q <= r
        Search(occ, from) ==
            IF ~NegationGlobal
            THEN [found |-> occ # {}, lastIndex |-> li]
            ELSE IF from = {}
                 THEN [found |-> FALSE, lastIndex |-> 0]
                 ELSE [found |-> TRUE,
                       lastIndex |-> CueEnd(c, text, First(from)) - start]
        Test(occ) ==
            Search(occ, {q \in occ : CharIndex(text, q) - start >= li})
    IN Test(CueOccurrences(c, text, matchIndex))

\* the second test without the bound on the distance: any cue of the
\* 50 characters before the match negates it
NearMatch_Anywhere(c, text, matchIndex) ==
    CueOccurrences(c, text, matchIndex) # {}

\* contextBefore.match(new RegExp(negPattern.source + '[^.]{0,20}$', 'i')):
\* some occurrence of the cue, its white space, then at most 20 characters,
\* none of them a full stop, up to the end of contextBefore
NearMatch(c, text, matchIndex) ==
    LET Near(p, n) ==
            /\ matchIndex - CharIndex(text, n) <= NearChars
            /\ \A j \in n..(p - 1) : text[j] # "."
        UpToEnd(p) ==
            \E q \in CueOccurrences(c, text, matchIndex) :
                Near(p, AfterSpace(text,
                            MatchFrom(NEGATION_PATTERNS[c], text, q, 1)))
    IN UpToEnd(LexemeAt(text, matchIndex))

RECURSIVE NegationLoop(_, _, _, _)
\* for (const negPattern of NEGATION_PATTERNS) { if (test) { if (match)
\* return true } } return false, from pattern c on, threading lastIndex
NegationLoop(text, matchIndex, c, li) ==
    IF c > Len(NEGATION_PATTERNS) THEN [negated |-> FALSE, lastIndex |-> li]
    ELSE LET Tested(t, li1) ==
                 IF t.found /\ NearMatch(c, text, matchIndex)
                 THEN [negated |-> TRUE, lastIndex |-> li1]
                 ELSE NegationLoop(text, matchIndex, c + 1, li1)
             Test(t) == Tested(t, [li EXCEPT ![c] = t.lastIndex])
         IN Test(RegExpTest(c, text, matchIndex, li[c]))

\* isNegated(text, matchIndex, matchLength), with the regex state it reads
\* and leaves
isNegated(text, matchIndex, matchLength, li) ==
    NegationLoop(text, matchIndex, 1, li)

----------------------------------------------------------------------------
(* JavaScript values handed to Analyzer.analyze *)

JsValue(t, s, n, b) == [type |-> t, str |-> s, num |-> n, bool |-> b]

JsString(s) == JsValue("string", s, 0, FALSE)

JsNull == JsValue("null", <<>>, 0, FALSE)

JsUndefined == JsValue("undefined", <<>>, 0, FALSE)

\* null, undefined, 0, 42, false, true, {}
NonStrings ==
    {JsNull, JsUndefined, JsValue("number", <<>>, 0, FALSE),
     JsValue("number", <<>>, 42, FALSE), JsValue("boolean", <<>>, 0, FALSE),
     JsValue("boolean", <<>>, 0, TRUE), JsValue("object", <<>>, 0, FALSE)}

\* !x
Falsy(x) ==
    \/ x.type \in {"null", "undefined"}
    \/ x.type = "string" /\ Len(x.str) = 0
    \/ x.type = "number" /\ x.num = 0
    \/ x.type = "boolean" /\ ~x.bool

----------------------------------------------------------------------------
(* analyze *)

RECURSIVE KeepLoop(_, _, _, _)
\* for (const match of matches) if (!isNegated(text, match.index,
\* match.length)) keywords.push(match.text): the texts pushed for matches
\* i.., and the regex state left
KeepLoop(text, matches, i, li) ==
    IF i > Len(matches) THEN [kept |-> <<>>, lastIndex |-> li]
    ELSE LET Push(n, rest) ==
                 [kept |-> (IF n.negated THEN <<>> ELSE <<matches[i].text>>)
                           \o rest.kept,
                  lastIndex |-> rest.lastIndex]
             Keep(n) == Push(n, KeepLoop(text, matches, i + 1, n.lastIndex))
         IN Keep(isNegated(text, matches[i].index, matches[i].length, li))

\* the match.text of every match, in order
Texts(matches) == [i \in 1..Len(matches) |-> matches[i].text]

RECURSIVE Dedup(_)
\* [...new Set(keywords)]: first occurrences, in insertion order
Dedup(q) ==
    IF q = <<>> THEN <<>>
    ELSE LET Add(front, last) ==
                 IF \E i \in 1..Len(front) : front[i] = last
                 THEN front ELSE Append(front, last)
         IN Add(Dedup(SubSeq(q, 1, Len(q) - 1)), q[Len(q)])

\* the object returned for a missing or non-string description
Unclear ==
    [status |-> "unclear", score |-> 0, confidence |-> "low",
     matchedKeywords |-> <<>>, message |-> "No job description found"]

\* the chain with the negative lists tested first
Status_NegativeFirst(mk) ==
    IF Len(mk.strongNegative) > 0 THEN "no"
    ELSE IF Len(mk.strongPositive) > 0 THEN "yes"
    ELSE IF Len(mk.moderateNegative) > 0 THEN "no"
    ELSE "yes"

\* the chain in the order of the score computation (positive lists first)
Status_PositiveFirst(mk) ==
    IF Len(mk.strongPositive) > 0 THEN "yes"
    ELSE IF Len(mk.moderatePositive) > 0 THEN "yes"
    ELSE IF Len(mk.strongNegative) > 0 THEN "no"
    ELSE IF Len(mk.moderateNegative) > 0 THEN "no"
    ELSE "yes"

\* the chain with the moderate negative list tested before the moderate
\* positive one
Status_ModerateNegativeFirst(mk) ==
    IF Len(mk.strongPositive) > 0 THEN "yes"
    ELSE IF Len(mk.strongNegative) > 0 THEN "no"
    ELSE IF Len(mk.moderateNegative) > 0 THEN "no"
    ELSE "yes"

\* if / else if chain over the four keyword lists
Status(mk) ==
    IF Len(mk.strongPositive) > 0 THEN "yes"
    ELSE IF Len(mk.strongNegative) > 0 THEN "no"
    ELSE IF Len(mk.moderatePositive) > 0 THEN "yes"
    ELSE IF Len(mk.moderateNegative) > 0 THEN "no"
    ELSE "yes"

\* the default branch of the negative-only analyzer: 'medium'
Confidence_DefaultMedium(mk) ==
    IF Len(mk.strongPositive) > 0 THEN "high"
    ELSE IF Len(mk.strongNegative) > 0 THEN "high"
    ELSE "medium"

Confidence(mk) ==
    IF Len(mk.strongPositive) > 0 THEN "high"
    ELSE IF Len(mk.strongNegative) > 0 THEN "high"
    ELSE IF Len(mk.moderatePositive) > 0 THEN "medium"
    ELSE IF Len(mk.moderateNegative) > 0 THEN "medium"
    ELSE "low"

Message(mk) ==
    IF Status(mk) = "no" THEN "No Sponsorship" ELSE "Sponsorship Available"

\* let score = 0; if ... score = 3; else if ... (positive lists first)
Score(mk) ==
    IF Len(mk.strongPositive) > 0 THEN 3
    ELSE IF Len(mk.moderatePositive) > 0 THEN 1
    ELSE IF Len(mk.strongNegative) > 0 THEN 0 - 3
    ELSE IF Len(mk.moderateNegative) > 0 THEN 0 - 1
    ELSE 0

\* the guard without its first disjunct
NoUsableText_TypeOnly(jobDescription) == jobDescription.type # "string"

\* the guard of analyze: !jobDescription || typeof jobDescription !== 'string'
NoUsableText(jobDescription) ==
    Falsy(jobDescription) \/ jobDescription.type # "string"

\* the object analyze returns for the four lists of matched keywords
Result(matchedKeywords) ==
    [status |-> Status(matchedKeywords),
     score |-> Score(matchedKeywords),
     confidence |-> Confidence(matchedKeywords),
     matchedKeywords |->
         Dedup(matchedKeywords.strongPositive
               \o matchedKeywords.moderatePositive
               \o matchedKeywords.strongNegative
               \o matchedKeywords.moderateNegative),
     message |-> Message(matchedKeywords),
     details |-> matchedKeywords]

\* an analyze that puts the negative matches through isNegated as well
analyze_NegativesChecked(jobDescription, li) ==
    IF NoUsableText(jobDescription)
    THEN [result |-> Unclear, lastIndex |-> li]
    ELSE LET text == jobDescription.str
             Done(sp, mp, sn, mn) ==
                 [result |->
                     Result([strongPositive   |-> sp.kept,
                             moderatePositive |-> mp.kept,
                             strongNegative   |-> sn.kept,
                             moderateNegative |-> mn.kept]),
                  lastIndex |-> mn.lastIndex]
             ModerateNegative(sp, mp, sn) ==
                 Done(sp, mp, sn,
                      KeepLoop(text,
                               FindAll(MODERATE_NEGATIVE_PATTERNS, text, 1),
                               1, sn.lastIndex))
             StrongNegative(sp, mp) ==
                 ModerateNegative(sp, mp,
                     KeepLoop(text,
                              FindAll(STRONG_NEGATIVE_PATTERNS, text, 1),
                              1, mp.lastIndex))
             Moderate(sp) ==
                 StrongNegative(sp,
                     KeepLoop(text,
                              FindAll(MODERATE_POSITIVE_PATTERNS, text, 1),
                              1, sp.lastIndex))
         IN Moderate(KeepLoop(text,
                              FindAll(STRONG_POSITIVE_PATTERNS, text, 1),
                              1, li))

\* Analyzer.analyze(jobDescription) run with the NEGATION_PATTERNS regexes in
\* state li: the object returned and the state left.  The four loops run in
\* the order of the source: strong positive, moderate positive (each match
\* kept unless isNegated), strong negative, moderate negative.
analyze(jobDescription, li) ==
    IF NoUsableText(jobDescription)
    THEN [result |-> Unclear, lastIndex |-> li]
    ELSE LET text == jobDescription.str
             Negative(sp, mp) ==
                 [result |->
                     Result([strongPositive   |-> sp.kept,
                             moderatePositive |-> mp.kept,
                             strongNegative   |->
                                 Texts(FindAll(STRONG_NEGATIVE_PATTERNS,
                                               text, 1)),
                             moderateNegative |->
                                 Texts(FindAll(MODERATE_NEGATIVE_PATTERNS,
                                               text, 1))]),
                  lastIndex |-> mp.lastIndex]
             Moderate(sp) ==
                 Negative(sp,
                     KeepLoop(text,
                              FindAll(MODERATE_POSITIVE_PATTERNS, text, 1),
                              1, sp.lastIndex))
         IN Moderate(KeepLoop(text,
                              FindAll(STRONG_POSITIVE_PATTERNS, text, 1),
                              1, li))

----------------------------------------------------------------------------
(* The phrase the highlighter marks (src/highlighter.js) *)

\* the choice with the moderate list taken first
MatchedPhrases_ModerateFirst(analysisResult) ==
    IF Len(analysisResult.details.moderateNegative) > 0
    THEN analysisResult.details.moderateNegative
    ELSE analysisResult.details.strongNegative

\* analysisResult.details.strongNegative.length > 0 ? strongNegative
\*                                                   : moderateNegative
MatchedPhrases(analysisResult) ==
    IF Len(analysisResult.details.strongNegative) > 0
    THEN analysisResult.details.strongNegative
    ELSE analysisResult.details.moderateNegative

\* const firstMatch = matchedPhrases[0]
FirstMatch(analysisResult) == MatchedPhrases(analysisResult)[1]

\* Highlighter.highlight(analysisResult, jobDescriptionText) up to the
\* choice of firstMatch in highlightSentences: the phrase looked for in the
\* document, as a sequence of one phrase, or of none when nothing is marked
PhraseToHighlight(analysisResult, jobDescriptionText) ==
    IF analysisResult.status # "no" THEN <<>>
    ELSE IF Len(MatchedPhrases(analysisResult)) > 0
            /\ Len(jobDescriptionText) > 0
         THEN <<FirstMatch(analysisResult)>>
         ELSE <<>>

----------------------------------------------------------------------------
(* The page: addresses, jobs and descriptions                               *)

\* JavaScript null, as a job id
Null == "null"

\* no function throws
NoFault == "none"

\* the functions that may throw: Analyzer.analyze, createBadge of
\* BadgeManager, Highlighter.highlight
Faults == {NoFault, "analyze", "createBadge", "highlight"}

Jobs == {"111", "222"}

\* window.location of /jobs/search/?currentJobId=<job>&start=<start>
SearchUrl(job, start) ==
    [pathname |-> "/jobs/search/", currentJobId |-> job, view |-> Null,
     start |-> start]

\* window.location of /feed/
FeedUrl ==
    [pathname |-> "/feed/", currentJobId |-> Null, view |-> Null, start |-> 0]

\* https://www.linkedin.com/jobs/collections/recommended/, no job selected
CollectionsUrl ==
    [pathname |-> "/jobs/collections/", currentJobId |-> Null, view |-> Null,
     start |-> 0]

Urls ==
    {SearchUrl("111", 0), SearchUrl("111", 25), SearchUrl("222", 0), FeedUrl,
     CollectionsUrl}

\* document.querySelector('[data-job-id]'): the pages of the model carry no
\* such element
DataJobId == Null

isLinkedInJobPage(location) ==
    \/ location.pathname = "/jobs/search/" /\ location.currentJobId # Null
    \/ location.pathname = "/jobs/view/" /\ location.view # Null
    \/ location.pathname = "/jobs/collections/"

extractJobId(location) ==
    IF location.currentJobId # Null THEN location.currentJobId
    ELSE IF location.pathname = "/jobs/view/" /\ location.view # Null
         THEN location.view
         ELSE DataJobId

\* no description element in the document
NoDescription == "none"

\* the descriptions the site serves, by name
Descriptions == {"A1", "A2", "A3", "B1"}

\* the job a description belongs to
DescriptionOwner(d) == IF d \in {"A1", "A2", "A3"} THEN "111" ELSE "222"

\* element.textContent.trim() of a description
DescriptionText(d) ==
    CASE d = "A1" -> <<"lorem", "no", "sponsorship">>
      [] d = "A2" -> <<"lorem", "visa", "available">>
      [] d = "A3" -> <<"lorem", "visa", "sponsorship", ".", "no", "sponsorship">>
      [] d = "B1" -> <<"lorem", "visa", "sponsorship", "available">>

\* the markup of the job pane: Classed, where the description is an element
\* with one of the classes of `selectors` and the badge goes into the top
\* card; Bare, where no element has such a class or a top-card class, and the
\* badge goes to the front of .jobs-details__main-content, followed by white
\* space
Classed == "classed"
Bare == "bare"
Layouts == {Classed, Bare}

\* the verdicts a badge of the monitor shows
BadgeStatuses == {"yes", "no"}

\* textContent of the badge: the icon and the message
BadgeText(status) ==
    IF status = "yes" THEN <<"icon:yes", "Sponsorship", "Available">>
    ELSE <<"icon:no", "No", "Sponsorship">>

\* the text of the main content when it holds a badge of `status` before the
\* description d, by name
WithBadge(d, status) ==
    (IF d = NoDescription THEN "" ELSE d) \o "+" \o status

\* the texts extractJobDescription() can return, by name
Extractions ==
    Descriptions \cup
    {WithBadge(d, status) : d \in Descriptions \cup {NoDescription},
                            status \in BadgeStatuses}

\* the description an extracted text holds
BaseOf(x) ==
    IF x \in Descriptions \cup {NoDescription} THEN x
    ELSE CHOOSE d \in Descriptions \cup {NoDescription} :
             \E status \in BadgeStatuses : x = WithBadge(d, status)

\* the extracted text x
ExtractedText(x) ==
    IF x \in Descriptions THEN DescriptionText(x)
    ELSE LET Joined(d, status) ==
                 BadgeText(status) \o
                 (IF d = NoDescription THEN <<>> ELSE DescriptionText(d))
         IN  Joined(BaseOf(x),
                    CHOOSE status \in BadgeStatuses :
                        x = WithBadge(BaseOf(x), status))

\* text.trim().length > 100
MinDescriptionChars == 100

\* extractJobDescription() in a document that holds the description `shown`
\* and the badge b: the description when an element of `selectors` holds it
\* and it is long enough; else clone.textContent of the main content, which
\* has the badge's text when the badge is inside it; else null (NoDescription)
extractJobDescription(shown, b) ==
    IF layout = Classed
    THEN IF shown # NoDescription
            /\ Length(DescriptionText(shown)) > MinDescriptionChars
         THEN shown
         ELSE NoDescription
    ELSE IF ~container THEN NoDescription
    ELSE IF b.shown /\ b.at = "container" THEN WithBadge(shown, b.status)
    ELSE shown

\* text.substring(0, 200)
PreviewChars == 200

\* hashJobDescription(null)
NullHash == [null |-> TRUE, preview |-> <<>>, cut |-> 0, length |-> 0]

\* hashJobDescription(text) = text.substring(0, 200).trim() + '|' + text.length:
\* `preview` holds the lexemes that lie wholly in the first 200 characters
\* (without a white-space run left at the end, which trim() removes) and `cut`
\* the number of characters taken from the word that crosses character 200
hashJobDescription(text) ==
    LET Kept(whole, cut) ==
            IF cut = 0 /\ whole > 0 /\ IsGap(text[whole])
            THEN whole - 1 ELSE whole
        Hash(whole, cut) ==
            [null |-> FALSE,
             preview |-> SubSeq(text, 1, Kept(whole, cut)
                                         + (IF cut > 0 THEN 1 ELSE 0)),
             cut |-> cut,
             length |-> Length(text)]
        Cut(whole) ==
            Hash(whole,
                 IF whole < Len(text) /\ ~IsGap(text[whole + 1])
                    /\ CharIndex(text, whole + 1) < PreviewChars
                 THEN PreviewChars - CharIndex(text, whole + 1)
                 ELSE 0)
    IN Cut(Cardinality({p \in 1..Len(text) :
                           CharEnd(text, p) <= PreviewChars}))

\* hashJobDescription(extractJobDescription()) for each description
Hashes ==
    [d \in Extractions \cup {NoDescription} |->
        IF d = NoDescription THEN NullHash
        ELSE hashJobDescription(ExtractedText(d))]

\* every regex of NEGATION_PATTERNS at lastIndex 0
ZeroLastIndex == [c \in 1..Len(NEGATION_PATTERNS) |-> 0]

\* Analyzer.analyze(description) for each value extractJobDescription()
\* returns (null included), with the description it was computed from (`of`);
\* the regexes of the classifier carry no state from call to call
\* (NegationGlobal)
AnalysisResults ==
    [d \in Extractions \cup {NoDescription} |->
        [result |-> analyze(IF d = NoDescription THEN JsNull
                            ELSE JsString(ExtractedText(d)),
                            ZeroLastIndex).result,
         of |-> d]]

\* no element #h1b-sponsor-badge in the document; `elements` and `wrappers`
\* count the elements with id h1b-sponsor-badge and h1b-sponsor-badge-container
NoBadge ==
    [shown |-> FALSE, status |-> "none", confidence |-> "none",
     of |-> NoDescription, at |-> "none", elements |-> 0, wrappers |-> 0]

\* no span.h1b-sponsor-highlight in the document
NoHighlight == [shown |-> FALSE, phrase |-> <<>>, in |-> NoDescription]

\* a timer handle that is not pending
Cleared == -1

\* an empty bag of timers
NoTimers == <<>>

\* a pending callback: `of` is the description whose analysisResult (and
\* text) the closure holds
Timer(kind, due, force, of, retryCount) ==
    [kind |-> kind, due |-> due, force |-> force, of |-> of,
     retryCount |-> retryCount]

\* no callback
NoTimer == Timer("none", 0, FALSE, NoDescription, 0)

\* the callbacks that finish the rendering of a classification cycle
DeferredKinds == {"injectBadge", "highlight", "highlightSentences"}

\* the number of pending description retries: the timers
\* () => processJobPage(force) that processJobPage set
PendingRetries ==
    BagCardinality([t \in {x \in BagToSet(timers) : x.kind = "retry"} |->
                       timers[t]])

\* the number of pending timers () => processJobPage(true) that
\* handleUrlChange set
PendingProcesses ==
    BagCardinality([t \in {x \in BagToSet(timers) :
                              x.kind = "processJobPage"} |-> timers[t]])

\* what a callback finds when it starts
Before ==
    [currentJobId |-> currentJobId,
     currentJobDescriptionHash |-> currentJobDescriptionHash,
     badge |-> badge,
     highlight |-> highlight,
     classified |-> classified,
     lastUrl |-> lastUrl,
     burst |-> burst,
     deferred |-> \E t \in BagToSet(timers) : t.kind \in DeferredKinds,
     retries |-> PendingRetries,
     processes |-> PendingProcesses]

\* no callback ran in the latest step
NoStep ==
    [handler |-> "none", timer |-> NoTimer, ran |-> FALSE,
     before |-> [currentJobId |-> Null,
                 currentJobDescriptionHash |-> NullHash,
                 badge |-> NoBadge,
                 highlight |-> NoHighlight,
                 classified |-> NoDescription,
                 lastUrl |-> FeedUrl,
                 burst |-> 0,
                 deferred |-> FALSE,
                 retries |-> 0,
                 processes |-> 0]]

\* the page monitor before the content script is loaded
MonitorAtRest ==
    /\ url = FeedUrl
    /\ description = NoDescription
    /\ container = FALSE
    /\ badge = NoBadge
    /\ highlight = NoHighlight
    /\ layout = Classed
    /\ currentJobId = Null
    /\ currentJobDescriptionHash = NullHash
    /\ isProcessing = FALSE
    /\ lastUrl = FeedUrl
    /\ observerTimeout = Cleared
    /\ checkInterval = Cleared
    /\ timers = NoTimers
    /\ events = 0
    /\ cycles = 0
    /\ classified = NoDescription
    /\ burst = 0
    /\ step = NoStep
    /\ raises = NoFault

----------------------------------------------------------------------------
(* The classifier harness: Analyzer.analyze is called on `subject`, and on  *)
(* other descriptions in between, any number of times in any order.         *)

\* no call made yet
NoResult == [status |-> "none"]

\* descriptions analysed between two calls on the subject
OtherTexts ==
    {JsString(<<"no", "visa", "sponsorship">>), JsNull}

\* descriptions longer than MaxLen: one in which a rule matches twice and
\* two rules overlap, one in which a later rule matches before an earlier
\* one
LongTexts ==
    {<<"sponsorship", "available", "visa", "sponsorship", "available">>,
     <<"sponsorship", "not", "available", "no", "sponsorship">>}

Inputs == NonStrings \cup {JsString(s) : s \in Strings \cup LongTexts}

InitAnalyzer ==
    /\ subject \in Inputs
    /\ arg = JsUndefined
    /\ ret = NoResult
    /\ firstRet = NoResult
    /\ subjectCalls = 0
    /\ lastIndex = ZeroLastIndex
    /\ MonitorAtRest

\* Analyzer.analyze(subject)
AnalyzeSubject ==
    /\ subjectCalls < MaxCalls
    /\ LET Return(r) ==
               /\ arg' = subject
               /\ ret' = r.result
               /\ firstRet' = IF subjectCalls = 0 THEN r.result ELSE firstRet
               /\ lastIndex' = r.lastIndex
       IN Return(analyze(subject, lastIndex))
    /\ subjectCalls' = subjectCalls + 1
    /\ UNCHANGED <<subject, monitorVars>>

\* Analyzer.analyze(t) for another description t
AnalyzeOther ==
    \E t \in OtherTexts :
        LET Return(r) ==
                /\ arg' = t
                /\ ret' = r.result
                /\ lastIndex' = r.lastIndex
        IN /\ Return(analyze(t, lastIndex))
           /\ UNCHANGED <<subject, firstRet, subjectCalls, monitorVars>>

NextAnalyzer == AnalyzeSubject \/ AnalyzeOther

SpecAnalyzer == InitAnalyzer /\ [][NextAnalyzer]_vars

----------------------------------------------------------------------------
(* Timers.  Time is counted in ticks of 100 ms, the unit of every delay of  *)
(* the program.  A timer is due when its `due` field has reached 0; timers  *)
(* that are due in the same tick were set at unrelated moments and run in   *)
(* any order.                                                               *)

\* setTimeout(..., 100) of the history hooks (src/content.js)
NavigationDelay == 1

\* setTimeout(() => processJobPage(true), 200)
ProcessDelay == 2

\* setTimeout(() => processJobPage(force), 300)
RetryDelay == 3

\* observerTimeout = setTimeout(..., 300)
DebounceDelay == 3

\* setTimeout(() => checkForJobChange(), 500) of the click listener
ClickDelay == 5

\* setInterval(..., 2000)
PollPeriod == 20

\* setTimeout(..., 100) around Highlighter.highlight
HighlightDelay == 1

\* setTimeout(..., 300) around highlightSentences (src/highlighter.js)
HighlightSentencesDelay == 3

\* 500 * (retryCount + 1) of injectBadge (src/badge.js), for retryCount = 0
InjectRetryDelay == 5

\* retryCount < 3
MaxInjectRetries == 3

\* the state a handler reads and writes; `mutated` records that it changed
\* the document inside the job pane, which the MutationObserver reports,
\* `ran` that it analysed a description
Running ==
    [currentJobId |-> currentJobId,
     currentJobDescriptionHash |-> currentJobDescriptionHash,
     isProcessing |-> isProcessing,
     badge |-> badge,
     highlight |-> highlight,
     timers |-> timers,
     cycles |-> cycles,
     classified |-> classified,
     handler |-> "none",
     timer |-> NoTimer,
     ran |-> FALSE,
     mutated |-> FALSE,
     thrown |-> FALSE]

\* a callback that no setTimeout of the model set starts to run
Called(handler) == [Running EXCEPT !.handler = handler]

\* an error is thrown: what is left of the callback does not run
Throw(st) == [st EXCEPT !.thrown = TRUE]

setTimeout(st, callback) ==
    [st EXCEPT !.timers = @ (+) SetToBag({callback})]

\* a clearTimeout that leaves the timer pending
clearTimeout_Noop(bag, handle) == bag

\* clearTimeout(handle): the timer the handle names is pending no more
clearTimeout(bag, handle) ==
    IF handle = Cleared THEN bag
    ELSE bag (-) SetToBag({Timer("observer", handle, FALSE, NoDescription, 0)})

\* the MutationObserver callback on a batch that affects job content:
\* clearTimeout(observerTimeout); observerTimeout = setTimeout(..., 300)
Debounce(bag, handle) ==
    clearTimeout(bag, handle)
        (+) SetToBag({Timer("observer", DebounceDelay, FALSE,
                            NoDescription, 0)})

\* callback t starts to run: the timers without one copy of t
Fired(t) ==
    [Running EXCEPT !.timers = @ (-) SetToBag({t}),
                    !.handler = t.kind,
                    !.timer = t]

\* the timers one tick later
Elapse(bag) ==
    [t \in {[x EXCEPT !.due = @ - 1] : x \in BagToSet(bag)} |->
        bag[[t EXCEPT !.due = @ + 1]]]

----------------------------------------------------------------------------
(* src/highlighter.js and src/badge.js *)

\* Highlighter.removeHighlights()
removeHighlights(st) ==
    IF st.highlight.shown
    THEN [st EXCEPT !.highlight = NoHighlight, !.mutated = TRUE]
    ELSE st

\* BadgeManager.removeBadge(): document.getElementById finds one element of
\* each id, and that one is removed
removeBadge(st) ==
    LET Left(b) ==
            IF b.elements <= 1
            THEN [NoBadge EXCEPT
                     !.wrappers = IF b.wrappers > 0 THEN b.wrappers - 1 ELSE 0]
            ELSE [b EXCEPT
                     !.elements = @ - 1,
                     !.wrappers = IF @ > 0 THEN @ - 1 ELSE 0]
    IN removeHighlights(
           IF st.badge.shown \/ st.badge.wrappers > 0
           THEN [st EXCEPT !.badge = Left(@),
                           !.mutated = @ \/ st.badge.at = "container"]
           ELSE st)

\* createBadge(analysisResult), placed at `at` inside a new wrapper
createBadge(analysisResult, at) ==
    [shown |-> TRUE, status |-> analysisResult.result.status,
     confidence |-> analysisResult.result.confidence,
     of |-> analysisResult.of, at |-> at, elements |-> 1, wrappers |-> 1]

\* the badge `new` and its wrapper inserted into a document that holds `old`
Inserted(old, new) ==
    [new EXCEPT !.elements = old.elements + 1,
                !.wrappers = old.wrappers + 1]

\* an injectBadge that gives up after the last retry and leaves no badge
injectBadge_Silent(st, analysisResult, retryCount) ==
    LET Inject(removed) ==
            IF ~container
            THEN IF retryCount < MaxInjectRetries
                 THEN setTimeout(removed,
                          Timer("injectBadge",
                                InjectRetryDelay * (retryCount + 1),
                                FALSE, analysisResult.of, retryCount + 1))
                 ELSE removed
            ELSE [removed EXCEPT
                     !.badge = Inserted(@, createBadge(analysisResult,
                                                      "container")),
                     !.mutated = TRUE]
    IN Inject(removeBadge(st))

\* an injectBadge that does not call removeBadge() first
injectBadge_NoRemove(st, analysisResult, retryCount) ==
    LET Inject(removed) ==
            IF ~container /\ retryCount < MaxInjectRetries
            THEN setTimeout(removed,
                     Timer("injectBadge",
                           InjectRetryDelay * (retryCount + 1),
                           FALSE, analysisResult.of, retryCount + 1))
            ELSE IF raises = "createBadge"
            THEN Throw(removed)
            ELSE IF ~container
            THEN [removed EXCEPT
                     !.badge = Inserted(@, createBadge(analysisResult,
                                                      "body"))]
            ELSE [removed EXCEPT
                     !.badge = Inserted(@, createBadge(analysisResult,
                                                      "container")),
                     !.mutated = TRUE]
    IN Inject(st)

\* BadgeManager.injectBadge(analysisResult, retryCount); when createBadge
\* throws, the call ends there, after removeBadge()
injectBadge(st, analysisResult, retryCount) ==
    LET Inject(removed) ==
            IF ~container /\ retryCount < MaxInjectRetries
            THEN setTimeout(removed,
                     Timer("injectBadge",
                           InjectRetryDelay * (retryCount + 1),
                           FALSE, analysisResult.of, retryCount + 1))
            ELSE IF raises = "createBadge"
            THEN Throw(removed)
            ELSE IF ~container
            THEN [removed EXCEPT
                     !.badge = Inserted(@, createBadge(analysisResult,
                                                      "body"))]
            ELSE [removed EXCEPT
                     !.badge = Inserted(@, createBadge(analysisResult,
                                                      "container")),
                     !.mutated = TRUE]
    IN Inject(removeBadge(st))

\* BadgeManager.updateBadge(analysisResult)
updateBadge(st, analysisResult) ==
    injectBadge(IF st.badge.shown THEN removeBadge(st) ELSE st,
                analysisResult, 0)

\* haystack.toLowerCase().indexOf(needle.toLowerCase()) !== -1
IncludesLower(haystack, needle) ==
    \E i \in 1..(Len(haystack) - Len(needle) + 1) :
        \A k \in 1..Len(needle) :
            ToLower(haystack[i + k - 1]) = ToLower(needle[k])

\* the lexemes of haystack that the first such occurrence covers
FoundLower(haystack, needle) ==
    LET i == CHOOSE i \in 1..(Len(haystack) - Len(needle) + 1) :
                 /\ \A k \in 1..Len(needle) :
                        ToLower(haystack[i + k - 1]) = ToLower(needle[k])
                 /\ \A j \in 1..(i - 1) :
                        \E k \in 1..Len(needle) :
                            ToLower(haystack[j + k - 1]) # ToLower(needle[k])
    IN SubSeq(haystack, i, i + Len(needle) - 1)

\* highlightSentences(matchedPhrases, fullText), with the phrases of
\* analysisResult and the text it was computed from
highlightSentences(st, analysisResult) ==
    LET Mark(firstMatch, fullText) ==
            IF ~IncludesLower(fullText, firstMatch) THEN st
            ELSE IF description = NoDescription \/ st.highlight.shown THEN st
            ELSE IF layout # Classed THEN st
            ELSE IF IncludesLower(DescriptionText(description), firstMatch)
            THEN [st EXCEPT
                     !.highlight =
                         [shown |-> TRUE,
                          phrase |-> FoundLower(DescriptionText(description),
                                                firstMatch),
                          in |-> description],
                     !.mutated = TRUE]
            ELSE st
    IN Mark(FirstMatch(analysisResult.result),
            ExtractedText(analysisResult.of))

\* Highlighter.highlight(analysisResult, jobDescriptionText)
Highlight(st, analysisResult) ==
    IF raises = "highlight" THEN Throw(st)
    ELSE IF analysisResult.result.status # "no" THEN removeHighlights(st)
    ELSE IF Len(MatchedPhrases(analysisResult.result)) > 0
            /\ Len(ExtractedText(analysisResult.of)) > 0
         THEN setTimeout(removeHighlights(st),
                  Timer("highlightSentences", HighlightSentencesDelay,
                        FALSE, analysisResult.of, 0))
         ELSE removeHighlights(st)

----------------------------------------------------------------------------
(* src/content.js *)

\* the count of cycles after one more cycle, started with or without a
\* badge in the document
Counted(n, badgeShown) == IF n = 0 THEN 1 ELSE IF badgeShown THEN 2 ELSE n

\* processJobPage(force)
\* a processJobPage that takes any description for a text
NoText_Never(d) == FALSE

\* !description
NoText(d) == d = NoDescription

processJobPage(st, force) ==
    IF st.isProcessing /\ ~force THEN st
    ELSE IF ~isLinkedInJobPage(url) THEN st
    ELSE
    LET jobId == extractJobId(url)
        Render(busy, analysisResult) ==
            IF busy.badge.shown
            THEN updateBadge(busy, analysisResult)
            ELSE injectBadge(busy, analysisResult, 0)
        Mark(rendered, analysisResult) ==
            IF analysisResult.result.status = "no"
            THEN setTimeout(rendered,
                     Timer("highlight", HighlightDelay, FALSE,
                           analysisResult.of, 0))
            ELSE removeHighlights(rendered)
        Done(marked) ==
            [marked EXCEPT !.isProcessing = FALSE,
                           !.cycles = Counted(@, st.badge.shown)]
        Finish(rendered, analysisResult) ==
            IF rendered.thrown THEN rendered
            ELSE Done(Mark(rendered, analysisResult))
        Busy(descriptionHash) ==
            [st EXCEPT !.isProcessing = TRUE,
                       !.currentJobId = jobId,
                       !.currentJobDescriptionHash = descriptionHash,
                       !.ran = TRUE]
        Cycle(descriptionHash, analysisResult) ==
            IF raises = "analyze" THEN Throw(Busy(descriptionHash))
            ELSE Finish(Render([Busy(descriptionHash) EXCEPT
                                   !.classified = analysisResult.of],
                               analysisResult),
                        analysisResult)
        Process(d, descriptionHash) ==
            IF ~force /\ jobId = st.currentJobId
               /\ descriptionHash = st.currentJobDescriptionHash
               /\ st.badge.shown
            THEN st
            ELSE IF NoText(d)
            THEN IF ~force /\ st.currentJobId = jobId
                 THEN st
                 ELSE setTimeout(st, Timer("retry", RetryDelay, force,
                                           NoDescription, 0))
            ELSE Cycle(descriptionHash, AnalysisResults[d])
        Extracted(d) == Process(d, Hashes[d])
    IN Extracted(extractJobDescription(description, st.badge))

\* Forget without BadgeManager.removeBadge()
Forget_KeepBadge(st) ==
    removeHighlights([st EXCEPT !.currentJobId = Null,
                                !.currentJobDescriptionHash = NullHash])

\* Forget that clears the stored job id and keeps the stored fingerprint
Forget_KeepFingerprint(st) ==
    removeHighlights(removeBadge([st EXCEPT !.currentJobId = Null]))

\* currentJobId = null; currentJobDescriptionHash = null;
\* BadgeManager.removeBadge(); Highlighter.removeHighlights()
Forget(st) ==
    removeHighlights(removeBadge(
        [st EXCEPT !.currentJobId = Null,
                   !.currentJobDescriptionHash = NullHash]))

\* handleUrlChange()
\* a handleUrlChange that does not compare the job ids
handleUrlChange_Always(st) ==
    setTimeout(Forget(st),
        Timer("processJobPage", ProcessDelay, TRUE, NoDescription, 0))

handleUrlChange(st) ==
    IF extractJobId(url) # st.currentJobId
    THEN setTimeout(Forget(st),
             Timer("processJobPage", ProcessDelay, TRUE, NoDescription, 0))
    ELSE st

\* checkForJobChange that compares the job id only
checkForJobChange_IdOnly(st) ==
    IF st.isProcessing THEN st
    ELSE IF extractJobId(url) # st.currentJobId
    THEN processJobPage(Forget(st), TRUE)
    ELSE st

\* checkForJobChange that reprocesses whatever it finds
checkForJobChange_Always(st) ==
    IF st.isProcessing THEN st
    ELSE processJobPage(
             IF extractJobId(url) # st.currentJobId THEN Forget(st) ELSE st,
             TRUE)

\* checkForJobChange()
checkForJobChange(st) ==
    IF st.isProcessing THEN st
    ELSE
    LET jobId == extractJobId(url)
        Check(descriptionHash) ==
            IF jobId # st.currentJobId
               \/ descriptionHash # st.currentJobDescriptionHash
            THEN processJobPage(
                     IF jobId # st.currentJobId THEN Forget(st) ELSE st, TRUE)
            ELSE st
    IN Check(Hashes[extractJobDescription(description, st.badge)])

\* the state a handler leaves; the MutationObserver callback follows a
\* handler that changed the job pane: clearTimeout(observerTimeout) and a new
\* debounce timer.  `handle` is the debounce timer otherwise.
Leave(st, handle) ==
    /\ currentJobId' = st.currentJobId
    /\ currentJobDescriptionHash' = st.currentJobDescriptionHash
    /\ isProcessing' = st.isProcessing
    /\ badge' = st.badge
    /\ highlight' = st.highlight
    /\ timers' = IF st.mutated THEN Debounce(st.timers, handle) ELSE st.timers
    /\ cycles' = st.cycles
    /\ observerTimeout' = IF st.mutated THEN DebounceDelay ELSE handle
    /\ classified' = st.classified
    /\ burst' = IF st.handler = "observer" THEN 0 ELSE burst
    /\ step' = [handler |-> st.handler, timer |-> st.timer, ran |-> st.ran,
                before |-> Before]

\* the content script has run init()
Loaded == checkInterval # Cleared

\* the page may act once more
Awake == Loaded /\ events < MaxEvents

\* a timer of the kind is due
Due(kind) == {t \in BagToSet(timers) : t.kind = kind /\ t.due = 0}

\* init(), when the script loads; when processJobPage() throws, init() ends
\* there and installs no hook, observer or poll
init ==
    /\ ~Loaded
    /\ ~isProcessing
    /\ LET Load(st) ==
               /\ Leave(st, observerTimeout)
               /\ checkInterval' = IF st.thrown THEN Cleared ELSE PollPeriod
       IN Load(processJobPage(Called("init"), FALSE))
    /\ lastUrl' = url
    /\ UNCHANGED <<analyzerVars, raises, layout, url, description, container,
                   events>>

\* the callback of the history hooks and of the popstate listener
\* a test that every history change passes
UrlChanged_Always(href, last) == TRUE

\* window.location.href !== lastUrl
UrlChanged(href, last) == href # last

NavigationTimer ==
    \E t \in Due("navigation") :
        /\ IF UrlChanged(url, lastUrl)
           THEN /\ lastUrl' = url
                /\ Leave(handleUrlChange(Fired(t)), observerTimeout)
           ELSE /\ lastUrl' = lastUrl
                /\ Leave(Fired(t), observerTimeout)
        /\ UNCHANGED <<analyzerVars, raises, layout, url, description, container,
                       checkInterval, events>>

\* () => processJobPage(force), set by handleUrlChange or by processJobPage
ProcessTimer ==
    \E t \in Due("processJobPage") \cup Due("retry") :
        /\ Leave(processJobPage(Fired(t), t.force), observerTimeout)
        /\ UNCHANGED <<analyzerVars, raises, layout, url, description, container, lastUrl,
                       checkInterval, events>>

\* () => checkForJobChange(), set by the click listener
ClickTimer ==
    \E t \in Due("checkForJobChange") :
        /\ Leave(checkForJobChange(Fired(t)), observerTimeout)
        /\ UNCHANGED <<analyzerVars, raises, layout, url, description, container, lastUrl,
                       checkInterval, events>>

\* the debounced callback of the MutationObserver
ObserverTimer ==
    \E t \in Due("observer") :
        /\ Leave(checkForJobChange(Fired(t)),
                 IF t.due = observerTimeout THEN Cleared ELSE observerTimeout)
        /\ UNCHANGED <<analyzerVars, raises, layout, url, description, container, lastUrl,
                       checkInterval, events>>

\* the callback of setInterval
IntervalTimer ==
    /\ checkInterval = 0
    /\ Leave(IF isLinkedInJobPage(url)
             THEN checkForJobChange(Called("interval"))
             ELSE Called("interval"),
             observerTimeout)
    /\ checkInterval' = PollPeriod
    /\ UNCHANGED <<analyzerVars, raises, layout, url, description, container, lastUrl,
                   events>>

\* () => injectBadge(analysisResult, retryCount + 1)
InjectTimer ==
    \E t \in Due("injectBadge") :
        /\ Leave(injectBadge(Fired(t), AnalysisResults[t.of], t.retryCount),
                 observerTimeout)
        /\ UNCHANGED <<analyzerVars, raises, layout, url, description, container, lastUrl,
                       checkInterval, events>>

\* () => Highlighter.highlight(analysisResult, description)
HighlightTimer ==
    \E t \in Due("highlight") :
        /\ Leave(Highlight(Fired(t), AnalysisResults[t.of]), observerTimeout)
        /\ UNCHANGED <<analyzerVars, raises, layout, url, description, container, lastUrl,
                       checkInterval, events>>

\* () => highlightSentences(matchedPhrases, jobDescriptionText)
HighlightSentencesTimer ==
    \E t \in Due("highlightSentences") :
        /\ Leave(highlightSentences(Fired(t), AnalysisResults[t.of]),
                 observerTimeout)
        /\ UNCHANGED <<analyzerVars, raises, layout, url, description, container, lastUrl,
                       checkInterval, events>>

\* 100 ms pass with no callback due
Tick ==
    /\ Loaded
    /\ checkInterval > 0
    /\ \A t \in BagToSet(timers) : t.due > 0
    /\ BagCardinality(timers) <= MaxPending
    /\ timers' = Elapse(timers)
    /\ checkInterval' = checkInterval - 1
    /\ observerTimeout' =
           IF observerTimeout = Cleared THEN Cleared ELSE observerTimeout - 1
    /\ step' = NoStep
    /\ UNCHANGED <<analyzerVars, raises, layout, pageVars, currentJobId,
                   currentJobDescriptionHash, isProcessing, lastUrl,
                   countVars, classified, burst>>

----------------------------------------------------------------------------
(* The page: the single-page application and the user *)

\* a mutation batch of the page: when it affects job content (observed) the
\* MutationObserver callback sets the debounce timer anew
Observe(observed) ==
    /\ timers' = IF observed THEN Debounce(timers, observerTimeout) ELSE timers
    /\ observerTimeout' = IF observed THEN DebounceDelay ELSE observerTimeout
    /\ burst' = IF observed THEN burst + 1 ELSE burst
    /\ step' = IF observed
               THEN [handler |-> "mutation", timer |-> NoTimer, ran |-> FALSE,
                     before |-> Before]
               ELSE NoStep
    /\ classified' = classified

\* history.pushState / replaceState to address u, or a popstate event that
\* leaves the page at u: the hook sets its 100 ms timer
pushState ==
    \E u \in Urls :
        /\ Awake 
        /\ events' = events + 1
        /\ url' = u
        /\ timers' = timers (+)
               SetToBag({Timer("navigation", NavigationDelay, FALSE,
                               NoDescription, 0)})
        /\ cycles' = IF extractJobId(u) # extractJobId(url) THEN 0 ELSE cycles
        /\ step' = NoStep
        /\ UNCHANGED <<analyzerVars, raises, layout, description, container, badge, highlight,
                       currentJobId, currentJobDescriptionHash, isProcessing,
                       lastUrl, observerTimeout, checkInterval, classified,
                       burst>>

\* the application draws description d of the job of the address, or takes
\* the description away; the MutationObserver reports it when the mutation
\* lies in a job container (observed)
RenderDescription ==
    \E d \in Descriptions \cup {NoDescription}, observed \in BOOLEAN :
        /\ Awake 
        /\ events' = events + 1
        /\ d # description
        /\ d # NoDescription => DescriptionOwner(d) = extractJobId(url)
        /\ description' = d
        /\ highlight' = NoHighlight
        /\ Observe(observed)
        /\ cycles' = 0
        /\ UNCHANGED <<analyzerVars, raises, layout, url, container, badge, currentJobId,
                       currentJobDescriptionHash, isProcessing, lastUrl,
                       checkInterval>>

\* the application redraws the top card, with or without an element that
\* findBadgeContainer() finds; a badge inside the old card goes with it
RenderTopCard ==
    \E c \in BOOLEAN, observed \in BOOLEAN :
        /\ Awake 
        /\ events' = events + 1
        /\ c # container \/ badge.at = "container"
        /\ container' = c
        /\ badge' = IF badge.at = "container" THEN NoBadge ELSE badge
        /\ Observe(observed)
        /\ cycles' = IF badge.at = "container" THEN 0 ELSE cycles
        /\ UNCHANGED <<analyzerVars, raises, layout, url, description, highlight,
                       currentJobId, currentJobDescriptionHash, isProcessing,
                       lastUrl, checkInterval>>

\* the user clicks a job card: the click listener sets its 500 ms timer
click ==
    /\ Awake 
    /\ events' = events + 1
    /\ timers' = timers (+)
           SetToBag({Timer("checkForJobChange", ClickDelay, FALSE,
                           NoDescription, 0)})
    /\ step' = NoStep
    /\ UNCHANGED <<analyzerVars, raises, layout, pageVars, currentJobId,
                   currentJobDescriptionHash, isProcessing, lastUrl,
                   observerTimeout, checkInterval, cycles, classified, burst>>

----------------------------------------------------------------------------
(* The page monitor *)

\* the classifier harness is not used
AnalyzerAtRest ==
    /\ subject = JsNull
    /\ arg = JsUndefined
    /\ ret = NoResult
    /\ firstRet = NoResult
    /\ subjectCalls = 0
    /\ lastIndex = ZeroLastIndex

\* the document and the script when the content script is loaded
ScriptLoading ==
    /\ AnalyzerAtRest
    /\ url \in {SearchUrl("111", 0), FeedUrl}
    /\ description \in
           {NoDescription} \cup
           {d \in Descriptions : DescriptionOwner(d) = extractJobId(url)}
    /\ container \in BOOLEAN
    /\ badge = NoBadge
    /\ highlight = NoHighlight
    /\ currentJobId = Null
    /\ currentJobDescriptionHash = NullHash
    /\ isProcessing = FALSE
    /\ lastUrl = url
    /\ observerTimeout = Cleared
    /\ checkInterval = Cleared
    /\ timers = NoTimers
    /\ events = 0
    /\ cycles = 0
    /\ classified = NoDescription
    /\ burst = 0
    /\ step = NoStep

\* the content script is loaded into a page whose description carries one of
\* the classes extractJobDescription() looks for, and no function of it throws
Init == ScriptLoading /\ raises = NoFault /\ layout = Classed

Next ==
    \/ init
    \/ NavigationTimer
    \/ ProcessTimer
    \/ ClickTimer
    \/ ObserverTimer
    \/ IntervalTimer
    \/ InjectTimer
    \/ HighlightTimer
    \/ HighlightSentencesTimer
    \/ Tick
    \/ pushState
    \/ RenderDescription
    \/ RenderTopCard
    \/ click

Spec == Init /\ [][Next]_vars

----------------------------------------------------------------------------
(* Properties of the classifier, checked under SpecAnalyzer *)

\* the latest call was made on a string and went past the guard
Scanned == ret # NoResult /\ arg.type = "string" /\ Len(arg.str) > 0

StrongPositiveMatches(text) == FindAll(STRONG_POSITIVE_PATTERNS, text, 1)

ModeratePositiveMatches(text) == FindAll(MODERATE_POSITIVE_PATTERNS, text, 1)

StrongNegativeMatches(text) == FindAll(STRONG_NEGATIVE_PATTERNS, text, 1)

ModerateNegativeMatches(text) == FindAll(MODERATE_NEGATIVE_PATTERNS, text, 1)

PositiveMatches(text) ==
    StrongPositiveMatches(text) \o ModeratePositiveMatches(text)

\* match m of text passes the negation check of a fresh page
Survives(text, m) ==
    ~isNegated(text, m.index, m.length, ZeroLastIndex).negated

SomeSurvives(text, matches) ==
    \E i \in 1..Len(matches) : Survives(text, matches[i])

\* the elements of a sequence
Range(q) == {q[i] : i \in 1..Len(q)}

VerbatimStrongNegative(phrase, text) ==
    \E p \in 1..Len(text), r \in 1..Len(STRONG_NEGATIVE_PATTERNS) :
        LET e == MatchFrom(STRONG_NEGATIVE_PATTERNS[r], text, p, 1)
        IN e # 0 /\ phrase = SubSeq(text, p, e)

\* C2: a text whose only catalogue matches are StrongNegative is classified
\* 'no' with confidence 'high', and the phrase the highlighter takes (the
\* first entry of details.strongNegative) is the matched part of the input,
\* character for character.
C2_OnlyStrongNegative ==
    (/\ Scanned
     /\ StrongNegativeMatches(arg.str) # <<>>
     /\ PositiveMatches(arg.str) = <<>>
     /\ ModerateNegativeMatches(arg.str) = <<>>)
    => /\ ret.status = "no"
       /\ ret.confidence = "high"
       /\ VerbatimStrongNegative(FirstMatch(ret), arg.str)
       /\ Len(StrongNegativeMatches(arg.str)) = 1
            => ret.details.strongNegative = <<FirstMatch(ret)>>

C2_Witness ==
    /\ Scanned
    /\ arg.str = <<"available", ".", "NO", "Sponsorship">>
    /\ ret.status = "no"
    /\ FirstMatch(ret) = <<"NO", "Sponsorship">>

\* positive match pm starts inside an occurrence of "no sponsorship" or
\* "no visa sponsorship"
InNegatedPhrase(text, pm) ==
    \E r \in {<<"no", "sponsorship">>, <<"no", "visa", "sponsorship">>} :
        LET nm == findMatches(r, text)
        IN \E i \in 1..Len(nm) :
              nm[i].index <= pm.index /\ pm.index < nm[i].index + nm[i].length

\* C3: a positive phrase that is part of "no sponsorship" or "no visa
\* sponsorship" is not recorded as positive evidence, and a text whose
\* positive phrases all lie in such negated phrases is not classified 'yes'.
C3_NegatedPhraseNotPositive ==
    Scanned =>
      LET pos    == PositiveMatches(arg.str)
          inside == {i \in 1..Len(pos) : InNegatedPhrase(arg.str, pos[i])}
          free   == {pos[i].text : i \in (1..Len(pos)) \ inside}
      IN /\ \A i \in inside :
               pos[i].text \in Range(ret.details.strongPositive)
                               \cup Range(ret.details.moderatePositive)
               => pos[i].text \in free
         /\ (inside # {} /\ free = {}) => ret.status # "yes"

\* C4: for null, undefined, the empty string and every non-string the call
\* returns (it does not throw) status 'unclear', confidence 'low' and an empty
\* matchedKeywords.
C4_NoUsableTextIsUnclear ==
    /\ subjectCalls > 0 => ret # NoResult
    /\ (/\ ret # NoResult
        /\ \/ arg.type # "string"
           \/ arg = JsString(<<>>))
       => /\ ret.status = "unclear"
          /\ ret.confidence = "low"
          /\ ret.matchedKeywords = <<>>

C4_Witness ==
    /\ ret # NoResult
    /\ arg = JsString(<<>>)
    /\ ret.status = "unclear"

\* C5: a non-empty text with no match of any tier, or whose only matches are
\* positive matches suppressed by negation, is classified 'yes' with
\* confidence 'low' and empty evidence.
C5_NoEvidenceIsWeakYes ==
    (/\ Scanned
     /\ ~SomeSurvives(arg.str, PositiveMatches(arg.str))
     /\ StrongNegativeMatches(arg.str) = <<>>
     /\ ModerateNegativeMatches(arg.str) = <<>>)
    => /\ ret.status = "yes"
       /\ ret.confidence = "low"
       /\ ret.matchedKeywords = <<>>

C5_Witness ==
    /\ Scanned
    /\ PositiveMatches(arg.str) # <<>>
    /\ ret.status = "yes"
    /\ ret.confidence = "low"

\* C6: a call on the description under test returns what the first call on
\* it returned, whatever was analysed in between, and no call leaves a regex
\* with a lastIndex other than 0.
C6_SameTextSameResult ==
    /\ (subjectCalls > 0 /\ arg = subject) => ret = firstRet
    /\ lastIndex = ZeroLastIndex

C6_Witness ==
    /\ subjectCalls = 2
    /\ arg = subject
    /\ subject.type = "string"
    /\ StrongPositiveMatches(subject.str) # <<>>
    /\ ret.status = "no"
    /\ ret = firstRet

\* C7: status 'yes' with a StrongNegative phrase in the evidence occurs only
\* with a StrongPositive phrase in the evidence.
C7_YesDespiteStrongNegative ==
    (/\ Scanned
     /\ ret.status = "yes"
     /\ Len(ret.details.strongNegative) > 0)
    => Len(ret.details.strongPositive) > 0

C7_Witness ==
    /\ Scanned
    /\ ret.status = "yes"
    /\ Len(ret.details.strongNegative) > 0
    /\ Len(ret.details.strongPositive) > 0
    /\ ret.score = 3

\* C8: every phrase of matchedKeywords and of the four details lists is a
\* case-exact substring of the text analysed.
C8_PhrasesAreSubstrings ==
    Scanned =>
      \A ph \in Range(ret.matchedKeywords)
                  \cup Range(ret.details.strongPositive)
                  \cup Range(ret.details.moderatePositive)
                  \cup Range(ret.details.strongNegative)
                  \cup Range(ret.details.moderateNegative) :
          IsSubstring(ph, arg.str)

C8_Witness ==
    /\ Scanned
    /\ ret.matchedKeywords = << <<"visa", "_17", "Sponsorship">> >>

----------------------------------------------------------------------------
(* Properties of the page monitor, checked under Spec *)

\* C9: the monitor runs classification and rendering at most once for the
\* same (job id, fingerprint): once a page has been classified, no further
\* cycle runs while its badge is in the document, until the job id of the
\* address or the shown description changes, whichever triggers fire.
C9_OneCyclePerChange == cycles <= 1

\* C10: no stale verdict is shown: once the monitor has taken note of the
\* job of the address, a badge in the document was computed from a
\* description of that job.
C10_BadgeOfShownJob ==
    (Loaded /\ badge.shown /\ currentJobId = extractJobId(url))
        => DescriptionOwner(badge.of) = extractJobId(url)

\* the callbacks that run checkForJobChange()
CheckHandlers == {"observer", "checkForJobChange", "interval"}

\* checkForJobChange() ran in the latest step
Checked ==
    /\ step.handler \in CheckHandlers
    /\ step.handler = "interval" => isLinkedInJobPage(url)

\* handleUrlChange() ran in the latest step
HandledUrlChange ==
    step.handler = "navigation" /\ url # step.before.lastUrl

\* the latest step's callback found a job id other than the stored one
SawOtherJob == extractJobId(url) # step.before.currentJobId

\* the stored identity is empty and no badge and no highlight is shown
IdentityCleared ==
    /\ currentJobId = Null
    /\ currentJobDescriptionHash = NullHash
    /\ badge = NoBadge
    /\ highlight = NoHighlight

\* C11: when handleUrlChange or checkForJobChange finds a job id other than
\* the stored one, the step leaves the stored job id and fingerprint null and
\* the document without badge and highlight, unless checkForJobChange went on
\* to classify in the same call: then no highlight is left and a badge in the
\* document is the one of that classification.
C11_ClearedOnOtherJob ==
    /\ (HandledUrlChange /\ SawOtherJob) => IdentityCleared
    /\ (Checked /\ SawOtherJob) =>
           IF step.ran
           THEN /\ highlight = NoHighlight
                /\ badge.shown => badge.of = extractJobDescription(description, badge)
           ELSE IdentityCleared

\* handleUrlChange has just removed a badge and a highlight of the job left
C11_Witness ==
    /\ HandledUrlChange
    /\ SawOtherJob
    /\ step.before.badge.shown
    /\ step.before.highlight.shown
    /\ IdentityCleared

\* the latest step ran a deferred render callback of a classification of
\* the job of the address that is not the most recent one
EarlierCallbackRan ==
    /\ step.handler \in DeferredKinds
    /\ step.timer.of # step.before.classified
    /\ DescriptionOwner(step.timer.of) = extractJobId(url)
    /\ step.before.currentJobId = extractJobId(url)

\* the badge of the most recent classification was in the document when the
\* latest step started
LatestWasRendered ==
    /\ step.before.badge.shown
    /\ step.before.badge.of = step.before.classified

\* C12: for a stable job id, once the most recent cycle has rendered its
\* badge, a callback of an earlier cycle (injectBadge retry, highlight,
\* highlightSentences) leaves the badge of the most recent classification in
\* the document and leaves no highlight unless that classification is 'no'.
C12_LastClassificationWins ==
    (EarlierCallbackRan /\ LatestWasRendered) =>
        /\ badge.shown
        /\ badge.of = classified
        /\ highlight.shown =>
               AnalysisResults[classified].result.status = "no"

\* the description extractJobDescription() returns
Extracted == extractJobDescription(description, badge)

\* checkForJobChange() ran in the latest step on a job page that shows a
\* job, the one whose id is stored, with a description to extract
CheckedSameJob ==
    /\ Checked
    /\ ~SawOtherJob
    /\ isLinkedInJobPage(url)
    /\ extractJobId(url) # Null
    /\ Extracted # NoDescription

\* the latest step classified the extracted description and rendered it
Reclassified ==
    /\ step.ran
    /\ classified = Extracted
    /\ currentJobDescriptionHash = Hashes[Extracted]
    /\ badge.shown => badge.of = Extracted

Untouched ==
    /\ ~step.ran
    /\ currentJobId = step.before.currentJobId
    /\ currentJobDescriptionHash = step.before.currentJobDescriptionHash
    /\ badge = step.before.badge
    /\ highlight = step.before.highlight

\* C14: for an unchanged job id and a description text identical to the one
\* last classified, a change check (from mutation, poll or click) analyses
\* nothing and leaves the stored identity, the badge and the highlight as
\* they were.
C14_SameTextUntouched ==
    (CheckedSameJob /\ Extracted = step.before.classified) => Untouched

\* a change check has just left a badge and a highlight of the same text
\* in place
C14_Witness ==
    /\ CheckedSameJob
    /\ Extracted = step.before.classified
    /\ badge.shown
    /\ highlight.shown
    /\ Untouched

\* the pending debounce timers
PendingDebounce == {t \in BagToSet(timers) : t.kind = "observer"}

\* their number
DebounceCount == BagCardinality([t \in PendingDebounce |-> timers[t]])

\* C15: at most one debounce timer is pending at any time; after a mutation
\* batch that touches job content the pending timer is the one just set, a
\* full debounce delay away; and when the debounce timer fires after a burst
\* of batches, that one callback has taken the whole burst: no timer of the
\* burst is left (a pending one was set by the callback's own writes to the
\* job pane), so checkForJobChange runs once and classifies at most once.
C15_BurstCoalesced ==
    /\ DebounceCount <= 1
    /\ step.handler = "mutation" =>
           /\ DebounceCount = 1
           /\ \A t \in PendingDebounce : t.due = DebounceDelay
    /\ (step.handler = "observer" /\ step.before.burst >= 1) =>
           /\ burst = 0
           /\ \A t \in PendingDebounce : t.due = DebounceDelay

\* the debounce timer has just fired once after a burst of two batches, and
\* its check has classified the page
C15_Witness ==
    /\ step.handler = "observer"
    /\ step.before.burst >= 2
    /\ step.ran
    /\ burst = 0

\* no callback that would still render a badge is pending
NoInjectPending == \A t \in BagToSet(timers) : t.kind # "injectBadge"

\* C16: when the badge is absent from the document (and no injectBadge retry
\* is pending) while job id and fingerprint of the page equal the stored
\* identity and a description can be extracted, a change check (debounced
\* mutation check, poll or click check) reclassifies and re-renders the badge.
C16_SelfHealing ==
    (CheckedSameJob
     /\ Hashes[Extracted] = step.before.currentJobDescriptionHash
     /\ ~step.before.badge.shown
     /\ NoInjectPending)
        => (step.ran /\ (container => badge.shown))

\* C17: at most one classification and render cycle, its deferred render
\* steps included, is in progress at a time: no cycle starts while an
\* injectBadge retry, a highlight or a highlightSentences callback of a
\* cycle is pending; a trigger that arrives then starts no cycle.
C17_OneCycleInProgress == step.ran => ~step.before.deferred

----------------------------------------------------------------------------
(* The event loop: a due callback runs, and time passes when none is due *)

\* a step of the content script or of the clock
Run ==
    \/ init
    \/ NavigationTimer
    \/ ProcessTimer
    \/ ClickTimer
    \/ ObserverTimer
    \/ IntervalTimer
    \/ InjectTimer
    \/ HighlightTimer
    \/ HighlightSentencesTimer
    \/ Tick

\* the page acts while its events are within the bound of the liveness runs
Page ==
    \/ events < MaxLiveEvents /\ pushState
    \/ events < MaxLiveEvents /\ RenderDescription
    \/ events < MaxLiveEvents /\ RenderTopCard
    \/ events < MaxLiveEvents /\ click

NextLive == Run \/ Page

\* the monitor with an event loop that never stops, on a page that changes
\* at most MaxLiveEvents times
SpecLive == Init /\ [][NextLive]_vars /\ WF_vars(Run)

\* the stored identity is that of the page and the badge in the document
\* shows the result of analysing the page's description
Settled ==
    (/\ isLinkedInJobPage(url)
     /\ extractJobId(url) # Null
     /\ Extracted # NoDescription)
        => /\ currentJobId = extractJobId(url)
           /\ currentJobDescriptionHash = Hashes[Extracted]
           /\ badge.shown
           /\ LET Shows(r) == /\ badge.status = r.status
                              /\ badge.confidence = r.confidence
              IN  Shows(AnalysisResults[Extracted].result)

\* C18: no change is lost: when time keeps passing (timers keep firing),
\* from some point on the stored identity is (job id, fingerprint of the
\* description) of the page and the badge shows analyze(description), for
\* good; the page changes finitely often, and the poll alone suffices.
C18_NoChangeLost == ([]<><<Tick>>_vars) => <>[]Settled

----------------------------------------------------------------------------
\* the pending retries of injectBadge
PendingInject == {t \in BagToSet(timers) : t.kind = "injectBadge"}

\* the latest step ran injectBadge for description d with the given
\* retryCount and found no badge container: the first attempt of a cycle
\* (retryCount 0) or the callback of a retry timer
InjectedWithoutContainer(d, retryCount) ==
    /\ ~container
    /\ \/ step.ran /\ retryCount = 0 /\ d = classified
       \/ /\ step.handler = "injectBadge"
          /\ step.timer.retryCount = retryCount
          /\ step.timer.of = d

\* C19: with no badge container injectBadge tries a bounded number of
\* times: every pending retry is retry 1, 2 or 3 and is due within 500,
\* 1000 or 1500 ms; an attempt before the third retry sets the next retry
\* with that delay, and the third retry sets none and leaves a badge at
\* document.body, never no badge.
C19_BoundedRetriesThenBody ==
    /\ \A t \in PendingInject :
           /\ t.retryCount \in 1..MaxInjectRetries
           /\ t.due <= InjectRetryDelay * t.retryCount
    /\ \A d \in Descriptions : \A n \in 0..MaxInjectRetries :
           InjectedWithoutContainer(d, n) =>
               IF n < MaxInjectRetries
               THEN Timer("injectBadge", InjectRetryDelay * (n + 1), FALSE,
                          d, n + 1) \in PendingInject
               ELSE /\ badge.shown
                    /\ badge.at = "body"
                    /\ badge.of = d

\* the third retry has run without a container and the badge is at
\* document.body
C19_Witness ==
    /\ \E d \in Descriptions : InjectedWithoutContainer(d, MaxInjectRetries)
    /\ badge.shown
    /\ badge.at = "body"

----------------------------------------------------------------------------
\* C20: highlight marks are in the document only while the verdict of the
\* latest classification cycle is 'no': after a cycle with another status
\* no mark is there, whatever timers of an earlier 'no' cycle run later.
C20_MarksOnlyWhileNo ==
    highlight.shown =>
        /\ classified # NoDescription
        /\ LET No(r) == r.status = "no"
           IN  No(AnalysisResults[classified].result)

----------------------------------------------------------------------------
(* Further properties of the classifier, checked under SpecAnalyzer *)

\* some negative indicator of the catalogue matches the text
NegativeIndicatorFound(text) ==
    StrongNegativeMatches(text) \o ModerateNegativeMatches(text) # <<>>

\* C21: the result logic of the README: a description in which no negative
\* indicator is found is classified 'yes', and one in which a negative
\* indicator is found is classified 'no'.
C21_ReadmeResultLogic ==
    Scanned =>
        ret.status = IF NegativeIndicatorFound(arg.str) THEN "no" ELSE "yes"

\* which tiers have matches that count: positive matches that pass the
\* negation check, negative matches as found
TierPresence(text) ==
    [strongPositive   |-> SomeSurvives(text, StrongPositiveMatches(text)),
     strongNegative   |-> StrongNegativeMatches(text) # <<>>,
     moderatePositive |-> SomeSurvives(text, ModeratePositiveMatches(text)),
     moderateNegative |-> ModerateNegativeMatches(text) # <<>>]

\* the verdict the precedence of tiers gives, first rule that applies
Precedence(tiers) ==
    IF tiers.strongPositive THEN <<"yes", "high">>
    ELSE IF tiers.strongNegative THEN <<"no", "high">>
    ELSE IF tiers.moderatePositive THEN <<"yes", "medium">>
    ELSE IF tiers.moderateNegative THEN <<"no", "medium">>
    ELSE <<"yes", "low">>

CueNear(text, m) ==
    \E c \in 1..Len(NEGATION_PATTERNS) :
        \E q \in CueOccurrences(c, text, m.index) :
            m.index - CueEnd(c, text, q) <= NearChars

\* the same, with no full stop between the cue and the match
CueNearInSentence(text, m) ==
    \E c \in 1..Len(NEGATION_PATTERNS) :
        \E q \in CueOccurrences(c, text, m.index) :
            /\ m.index - CueEnd(c, text, q) <= NearChars
            /\ \A j \in q..(LexemeAt(text, m.index) - 1) : text[j] # "."

\* the phrases of the matches that have no cue near them (in the same
\* sentence, or anywhere), in order
KeptPhrases(text, matches, inSentence) ==
    LET Keep(m) == IF inSentence THEN ~CueNearInSentence(text, m)
                   ELSE ~CueNear(text, m)
    IN Texts(SelectSeq(matches, Keep))

\* C23 as stated: a positive match is excluded from the evidence exactly
\* when a negation cue lies in the 50 characters before it with at most 20
\* characters between the cue and the match; every other positive match is
\* kept.
C23_NegatedByNearCue ==
    Scanned =>
        /\ ret.details.strongPositive =
               KeptPhrases(arg.str, StrongPositiveMatches(arg.str), FALSE)
        /\ ret.details.moderatePositive =
               KeptPhrases(arg.str, ModeratePositiveMatches(arg.str), FALSE)

\* C23 amended: a positive match is excluded exactly when a negation cue
\* lies in the 50 characters before it with at most 20 characters, none of
\* them a full stop, between the cue and the match.
C23_NegatedByCueInSentence ==
    Scanned =>
        /\ ret.details.strongPositive =
               KeptPhrases(arg.str, StrongPositiveMatches(arg.str), TRUE)
        /\ ret.details.moderatePositive =
               KeptPhrases(arg.str, ModeratePositiveMatches(arg.str), TRUE)

\* one text with a positive match excluded for its cue and another kept
\* although a cue is in the 50 characters before it, 21 away
C23_Witness ==
    /\ Scanned
    /\ \E i \in 1..Len(PositiveMatches(arg.str)) :
           LET Kept(m) ==
                   /\ ~CueNearInSentence(arg.str, m)
                   /\ \E c \in 1..Len(NEGATION_PATTERNS) :
                          CueOccurrences(c, arg.str, m.index) # {}
                   /\ m.text \in Range(ret.matchedKeywords)
           IN Kept(PositiveMatches(arg.str)[i])
    /\ \E i \in 1..Len(PositiveMatches(arg.str)) :
           LET Dropped(m) ==
                   /\ CueNearInSentence(arg.str, m)
                   /\ m.text \notin Range(ret.matchedKeywords)
           IN Dropped(PositiveMatches(arg.str)[i])

\* the negative matches of the text, both tiers
NegativeMatches(text) ==
    StrongNegativeMatches(text) \o ModerateNegativeMatches(text)

\* C24: negative matches are never suppressed: every StrongNegative and
\* ModerateNegative match is recorded in the evidence, whatever negation
\* cue precedes it, and counts toward the verdict.
C24_NegativesNeverSuppressed ==
    Scanned =>
        /\ ret.details.strongNegative = Texts(StrongNegativeMatches(arg.str))
        /\ ret.details.moderateNegative =
               Texts(ModerateNegativeMatches(arg.str))
        /\ \A i \in 1..Len(NegativeMatches(arg.str)) :
               NegativeMatches(arg.str)[i].text \in Range(ret.matchedKeywords)
        /\ (/\ NegativeMatches(arg.str) # <<>>
            /\ ret.details.strongPositive = <<>>
            /\ ret.details.moderatePositive = <<>>) => ret.status = "no"

\* a negative match right after a negation cue ('not local candidates
\* only') is recorded and gives 'no'
C24_Witness ==
    /\ Scanned
    /\ \E i \in 1..Len(NegativeMatches(arg.str)) :
           LET AfterCue(m) ==
                   /\ CueNearInSentence(arg.str, m)
                   /\ m.text \in Range(ret.matchedKeywords)
           IN AfterCue(NegativeMatches(arg.str)[i])
    /\ PositiveMatches(arg.str) = <<>>
    /\ ret.status = "no"

\* the tiers in the order analyze scans them and spreads them into
\* allMatchedKeywords
Tiers ==
    << STRONG_POSITIVE_PATTERNS, MODERATE_POSITIVE_PATTERNS,
       STRONG_NEGATIVE_PATTERNS, MODERATE_NEGATIVE_PATTERNS >>

\* every place of the text where a rule of the catalogue matches
Occurrences(text) ==
    {[tier |-> t, rule |-> r, at |-> p,
      text |-> SubSeq(text, p, MatchFrom(Tiers[t][r], text, p, 1)),
      index |-> CharIndex(text, p),
      length |-> CharEnd(text, MatchFrom(Tiers[t][r], text, p, 1))
                     - CharIndex(text, p)] :
        <<t, r, p>> \in
            {x \in (1..Len(Tiers)) \X (1..3) \X (1..Len(text)) :
                /\ x[2] <= Len(Tiers[x[1]])
                /\ MatchFrom(Tiers[x[1]][x[2]], text, x[3], 1) # 0}}

\* the occurrences that count: those of the positive tiers pass the
\* negation check
Surviving(text) ==
    {o \in Occurrences(text) : o.tier <= 2 => Survives(text, o)}

\* occurrence a comes before b: by tier, then rule, then place in the text
ComesBefore(a, b) ==
    \/ a.tier < b.tier
    \/ a.tier = b.tier /\ a.rule < b.rule
    \/ a.tier = b.tier /\ a.rule = b.rule /\ a.at < b.at

\* the first surviving occurrence that reads `phrase`
FirstOccurrence(text, phrase) ==
    CHOOSE o \in Surviving(text) :
        /\ o.text = phrase
        /\ \A x \in Surviving(text) :
               x.text = phrase /\ x # o => ComesBefore(o, x)

\* C25: matchedKeywords holds the phrase of every surviving match of every
\* rule, all occurrences and overlapping rules included, once per distinct
\* phrase text, ordered by tier, then rule, then place in the text of the
\* first occurrence of the phrase.
C25_EvidenceIsAllMatchesOnce ==
    Scanned =>
        /\ Range(ret.matchedKeywords) = {o.text : o \in Surviving(arg.str)}
        /\ \A i, j \in 1..Len(ret.matchedKeywords) :
               i < j =>
                   /\ ret.matchedKeywords[i] # ret.matchedKeywords[j]
                   /\ ComesBefore(
                          FirstOccurrence(arg.str, ret.matchedKeywords[i]),
                          FirstOccurrence(arg.str, ret.matchedKeywords[j]))

\* a text with more surviving matches than distinct phrases, two rules
\* matching overlapping places, and a phrase that stands in the evidence
\* before one found earlier in the text
C25_Witness ==
    /\ Scanned
    /\ Len(ret.matchedKeywords) > 1
    /\ Cardinality(Surviving(arg.str)) > Len(ret.matchedKeywords)
    /\ \E a, b \in Surviving(arg.str) :
           a.rule # b.rule /\ a.at < b.at /\ b.index < a.index + a.length
    /\ \E a, b \in Surviving(arg.str) :
           /\ a = FirstOccurrence(arg.str, ret.matchedKeywords[1])
           /\ b = FirstOccurrence(arg.str, ret.matchedKeywords[2])
           /\ b.at < a.at

\* the first match of tier t in catalogue order: by rule, then by place
FirstOfTier(text, t) ==
    CHOOSE o \in Occurrences(text) :
        /\ o.tier = t
        /\ \A x \in Occurrences(text) :
               x.tier = t /\ x # o => ComesBefore(o, x)

\* C26: the phrase handed to highlighting is the first match, in catalogue
\* order, of the negative tier that decided the verdict: of StrongNegative
\* for ('no', 'high'), of ModerateNegative for ('no', 'medium'); for status
\* 'yes' no phrase is handed over.
C26_PhraseOfDecidingTier ==
    Scanned =>
        /\ (ret.status = "no" /\ ret.confidence = "high") =>
               PhraseToHighlight(ret, arg.str)
                   = <<FirstOfTier(arg.str, 3).text>>
        /\ (ret.status = "no" /\ ret.confidence = "medium") =>
               PhraseToHighlight(ret, arg.str)
                   = <<FirstOfTier(arg.str, 4).text>>
        /\ ret.status = "yes" => PhraseToHighlight(ret, arg.str) = <<>>

\* 'sponsorship not available no sponsorship': the phrase handed over is
\* 'no sponsorship', the match of the earlier rule, found later in the text
C26_Witness ==
    /\ Scanned
    /\ ret.status = "no"
    /\ ret.confidence = "high"
    /\ PhraseToHighlight(ret, arg.str) = << <<"no", "sponsorship">> >>
    /\ \E o \in Occurrences(arg.str) :
           o.tier = 3 /\ o.at < FirstOfTier(arg.str, 3).at

----------------------------------------------------------------------------
(* Description retries, checked under Spec *)

\* the steps that are one call of processJobPage and nothing else
ProcessHandlers == {"init", "processJobPage", "retry"}

\* the latest step called processJobPage on a job page whose description
\* could not be extracted
FoundNoDescription ==
    /\ step.handler \in ProcessHandlers
    /\ isLinkedInJobPage(url)
    /\ Extracted = NoDescription

\* the latest step set a description retry: more retries are pending than
\* the ones that were pending before it and did not fire in it
RetryScheduled ==
    PendingRetries >
        step.before.retries - (IF step.handler = "retry" THEN 1 ELSE 0)

\* C27: a call of processJobPage that finds no description sets a retry only
\* if the job id of the page is the stored one; when the job id differs it
\* sets none
C27_RetryOnlyIfJobUnchanged ==
    (FoundNoDescription /\ RetryScheduled) =>
        extractJobId(url) = step.before.currentJobId

\* C28: at any time at most one description retry is pending, however many
\* triggers fire while the description is missing
C28_AtMostOneRetryPending == PendingRetries <= 1

\* C29: when the description of the page never becomes extractable, the
\* description retries stop after finitely many: from some time on no retry
\* is pending
C29_RetriesStop ==
    (/\ []<><<Tick>>_vars
     /\ <>[](isLinkedInJobPage(url) /\ Extracted = NoDescription))
        => <>[](PendingRetries = 0)

----------------------------------------------------------------------------
(* Superseded cycles, checked under Spec *)

\* the latest step ran a deferred render callback of a cycle that is
\* superseded: the stored job id was cleared or is another job's when the
\* callback started
SupersededCallbackRan ==
    /\ step.handler \in DeferredKinds
    /\ step.before.currentJobId # DescriptionOwner(step.timer.of)

\* the latest step's callback wrote its result to the document: the badge of
\* its classification was inserted or a sentence was marked
ResultApplied ==
    \/ /\ badge.shown
       /\ badge.of = step.timer.of
       /\ badge # step.before.badge
    \/ /\ highlight.shown
       /\ ~step.before.highlight.shown

\* C30: a cycle superseded by a navigation discards its result: a badge
\* injection retry or a highlight set for job A writes nothing to the document
\* once the stored identity was cleared or changed to job B
C30_SupersededCycleDiscarded == SupersededCallbackRan => ~ResultApplied

----------------------------------------------------------------------------
(* The stored identity, checked under Spec *)

\* C31: every step that changes the stored job id sets the stored
\* fingerprint in the same step: either both are cleared to null, or a
\* classification cycle stores the job id of the page together with the
\* fingerprint of the description it extracted
C31_IdentityReplacedWholesale ==
    [][currentJobId' # currentJobId =>
           \/ /\ currentJobId' = Null
              /\ currentJobDescriptionHash' = NullHash
           \/ /\ step'.ran
              /\ currentJobId' = extractJobId(url')
              /\ currentJobDescriptionHash' =
                     Hashes[extractJobDescription(description', badge)]]_vars

\* one step has replaced the identity of one job by the identity of another
C31_Witness ==
    /\ step.ran
    /\ step.before.currentJobId # Null
    /\ currentJobId # Null
    /\ currentJobId # step.before.currentJobId
    /\ currentJobDescriptionHash = Hashes[Extracted]
    /\ currentJobDescriptionHash # step.before.currentJobDescriptionHash

----------------------------------------------------------------------------
(* Errors thrown by the classifier and the renderers, checked under         *)
(* SpecFaulty: one of the functions of Faults throws whenever it is called. *)

\* the content script is loaded on a page where a function may throw
InitFaulty == ScriptLoading /\ raises \in Faults /\ layout = Classed

SpecFaulty == InitFaulty /\ [][NextLive]_vars

\* C32: the busy flag is released after every classification cycle, also
\* after one in which the classifier, the badge renderer or the highlighter
\* throws: between two callbacks isProcessing is false
C32_BusyFlagReleased == ~isProcessing

----------------------------------------------------------------------------
(* The score, checked under SpecAnalyzer *)

\* the decision weight of the tier that decided a verdict
DecidingWeight(r) ==
    IF r.confidence = "low" THEN 0
    ELSE (IF r.confidence = "high" THEN 3 ELSE 1)
             * (IF r.status = "no" THEN 0 - 1 ELSE 1)

\* C33: the score of a result agrees with its verdict: it is negative
\* exactly when the status is 'no', positive only when the status is 'yes',
\* and equal to the weight of the tier that decided the status (+3, -3, +1,
\* -1, or 0 without evidence)
C33_ScoreAgreesWithVerdict ==
    ret # NoResult =>
        /\ ret.score < 0 <=> ret.status = "no"
        /\ ret.score > 0 => ret.status = "yes"
        /\ ret.score = DecidingWeight(ret)

----------------------------------------------------------------------------
(* The badge element, checked under Spec *)

\* C34: the document holds at most one element with id h1b-sponsor-badge and
\* at most one with id h1b-sponsor-badge-container, whatever the order of
\* injectBadge, updateBadge and removeBadge calls and of injectBadge retries
C34_AtMostOneBadge ==
    /\ badge.elements <= 1
    /\ badge.wrappers <= 1
    /\ badge.shown <=> badge.elements = 1

\* an injectBadge retry has run while the badge of a later cycle was in the
\* document, and one badge in one wrapper is there after it
C34_Witness ==
    /\ step.handler = "injectBadge"
    /\ step.before.badge.shown
    /\ step.before.badge.of # step.timer.of
    /\ badge.shown
    /\ badge.of = step.timer.of
    /\ badge.elements = 1
    /\ badge.wrappers = 1

----------------------------------------------------------------------------
(* rendering and change detection *)

\* the content script is loaded into a page of either layout
InitBare == ScriptLoading /\ raises = NoFault /\ layout \in Layouts

SpecBare == InitBare /\ [][NextLive]_vars

\* the description extractJobDescription() returned in the latest step
ExtractedBefore == extractJobDescription(description, step.before.badge)

\* checkForJobChange() ran in the latest step on the page of the stored job,
\* whose description D was classified last, with the fingerprint of D stored
\* and the badge rendered for D in the document
CheckedAfterRendering ==
    /\ Checked
    /\ ~SawOtherJob
    /\ isLinkedInJobPage(url)
    /\ extractJobId(url) # Null
    /\ description # NoDescription
    /\ step.before.classified = description
    /\ step.before.currentJobDescriptionHash = Hashes[description]
    /\ step.before.badge.shown
    /\ step.before.badge.of = description

\* C35: rendering is a fixed point of change detection: once a cycle has
\* rendered the badge for job J with description D, a change check on the
\* same page extracts a description with the stored fingerprint (the badge's
\* text is no part of it) and analyses nothing, leaving the stored identity,
\* the badge and the highlight as they were.
C35_RenderingIsFixedPoint ==
    CheckedAfterRendering
        => /\ Hashes[ExtractedBefore] = step.before.currentJobDescriptionHash
           /\ Untouched

----------------------------------------------------------------------------
(* the verdicts the monitor renders *)

----------------------------------------------------------------------------
(* navigation *)

\* C37: a URL change whose job id equals the stored job id is a no-op in
\* handleUrlChange: the step leaves the stored identity, the badge and the
\* highlight as they were, analyses nothing and schedules no processJobPage.
C37_SameJobUrlChangeIsNoOp ==
    (HandledUrlChange /\ ~SawOtherJob)
        => /\ Untouched
           /\ PendingProcesses = step.before.processes
           /\ PendingRetries = step.before.retries

\* handleUrlChange has just run for another URL of the stored job and left
\* its badge in place
C37_Witness ==
    /\ HandledUrlChange
    /\ ~SawOtherJob
    /\ step.before.currentJobId # Null
    /\ step.before.badge.shown
    /\ Untouched
    /\ PendingProcesses = 0

\* C38: navigation signals are coalesced against the last-known URL: a
\* navigation timer that finds location.href equal to lastUrl does nothing
\* (no handleUrlChange: identity, badge, highlight and the pending
\* processJobPage timers stay as they were), and one that finds another URL
\* makes it the last-known URL, so of the timers of several history changes
\* made within one delay only the first to fire calls handleUrlChange, for
\* the final URL.
C38_NavigationCoalesced ==
    step.handler = "navigation"
        => /\ lastUrl = url
           /\ url = step.before.lastUrl
                  => /\ Untouched
                     /\ PendingProcesses = step.before.processes

\* of two history changes made within one delay the first timer has called
\* handleUrlChange for the final URL, which set the processJobPage timer an
\* instant ago, and the second timer has just fired and done nothing
C38_Witness ==
    /\ step.handler = "navigation"
    /\ url = step.before.lastUrl
    /\ extractJobId(url) # Null
    /\ currentJobId = Null
    /\ PendingProcesses = 1
    /\ \E t \in BagToSet(timers) :
           t.kind = "processJobPage" /\ t.due = ProcessDelay
    /\ Untouched

----------------------------------------------------------------------------
(* supported pages *)

\* C39: the extension acts only on LinkedIn job pages: a callback that
\* assigns the stored identity or puts a badge into the document runs while
\* the URL matches a supported job URL pattern; on any other URL no callback
\* renders a badge, a timer started before the navigation included.
C39_ActsOnlyOnJobPages ==
    step.handler # "none"
        => /\ (currentJobId # Null
               /\ currentJobId # step.before.currentJobId)
                  => isLinkedInJobPage(url)
           /\ (badge.shown /\ badge # step.before.badge)
                  => isLinkedInJobPage(url)

=============================================================================
